---- MODULE Spec2Model ----
(***************************************************************************)
(* Model of xstate-tools' shared typegen core:                             *)
(*   - introspectMachine (shared/src/introspectMachine.ts): the walk over  *)
(*     a machine's state nodes that fills the five ItemMaps and the        *)
(*     nodeMap, and the result it assembles;                               *)
(*   - writeToTypegenFile (packages/shared/src/writeToTypegenFile.ts).     *)
(***************************************************************************)
EXTENDS Integers, Sequences, FiniteSets, TLC

VARIABLES
  machine,     \* the XState.StateNode handed to introspectMachine
  pc,          \* position inside introspectMachine
  nodeMap,     \* id -> {sources, children}
  guards, actions, services, activities, delays,   \* the five ItemMaps
  result,      \* the value introspectMachine returns
  wOpts,       \* opts of writeToTypegenFile
  wpc,         \* position inside writeToTypegenFile
  wConfig,     \* prettierConfig once resolved
  files,       \* the paths that exist on disk
  logged       \* number of console.log calls made by writeToTypegenFile

ivars == <<machine, pc, nodeMap, guards, actions, services, activities, delays, result>>
wvars == <<wOpts, wpc, wConfig, files, logged>>
vars == <<machine, pc, nodeMap, guards, actions, services, activities, delays, result,
          wOpts, wpc, wConfig, files, logged>>

(***************************************************************************)
(* Generic helpers                                                         *)
(***************************************************************************)

\* Array.prototype.forEach used as a left fold over the registries
RECURSIVE FoldLeft(_, _, _)
FoldLeft(Op(_, _), acc, s) ==
  IF s = <<>> THEN acc ELSE FoldLeft(Op, Op(acc, Head(s)), Tail(s))

InSeq(s, x) == \E i \in 1..Len(s) : s[i] = x

\* Set.prototype.add on a Set of strings, kept in insertion order
SetAdd(s, x) == IF InSeq(s, x) THEN s ELSE Append(s, x)

\* /\./.test(name)
HasDot(name) == \E i \in 1..Len(name) : SubSeq(name, i, i) = "."

\* xstateRegex = /^xstate\./
xstateRegex(name) == Len(name) >= 7 /\ SubSeq(name, 1, 7) = "xstate."

\* Boolean(x) for a string x, as used by .filter(Boolean)
Truthy(str) == str # ""

(***************************************************************************)
(* Values found in a machine definition                                    *)
(***************************************************************************)

\* a value whose typeof is "string"
Str(s) == [t |-> "string", s |-> s, items |-> <<>>]
\* a value that is neither a string nor an array (function, number, object)
NonStr == [t |-> "other", s |-> "", items |-> <<>>]
\* an array value
Arr(items) == [t |-> "array", s |-> "", items |-> items]

NoConds == [isArray |-> FALSE, items |-> <<>>]
\* XState.ActionObject: type, optional exec, optional conds
Act(type, exec) == [type |-> type, exec |-> exec, conds |-> NoConds]
Branch(cond, condActions) == [cond |-> cond, actions |-> condActions]
Choose(branches) ==
  [type |-> "xstate.choose", exec |-> FALSE, conds |-> [isArray |-> TRUE, items |-> branches]]

NoCond == [present |-> FALSE, name |-> ""]
Cond(name) == [present |-> TRUE, name |-> name]

(***************************************************************************)
(* The state tree: root R with children A and B, A with child C            *)
(***************************************************************************)

NoParent == "<none>"
DanglingId == "X"

\* node.parent
Parent(id) == CASE id = "R" -> NoParent
                [] id = "A" -> "R"
                [] id = "B" -> "R"
                [] id = "C" -> "A"

\* node.key
Key(id) == id

\* node.path
Path(id) == CASE id = "R" -> <<>>
              [] id = "A" -> <<"A">>
              [] id = "B" -> <<"B">>
              [] id = "C" -> <<"A", "C">>

\* machine.stateIds: document order, for the two orders of R's children
StateIdOrders == {<<"R", "A", "C", "B">>, <<"R", "B", "A", "C">>}

\* Object.values(node.states), in the machine's document order
States(m, id) == SelectSeq(m.order, LAMBDA c : Parent(c) = id)

IsLeaf(m, id) == States(m, id) = <<>>

\* node.initialStateNodes: the leaves of the node's initial state value
RECURSIVE initialStateNodes(_, _)
initialStateNodes(m, id) ==
  IF IsLeaf(m, id) \/ m.initial[id] = "" THEN {id}
  ELSE initialStateNodes(m, m.initial[id])

\* the `initial` keys of the compound nodes
InitialConfigs == {[R |-> "A", A |-> "C", B |-> "", C |-> ""],
                   [R |-> "A", A |-> "", B |-> "", C |-> ""],
                   [R |-> "B", A |-> "C", B |-> "", C |-> ""]}

(***************************************************************************)
(* The declarations a machine definition is drawn from.  A machine holds   *)
(* at most MaxDecls of them; a node's lists keep the menu's order.         *)
(***************************************************************************)

MaxDecls == 3

D(kind, node, ev, target, cond, items, ident) ==
  [kind |-> kind, node |-> node, eventType |-> ev, target |-> target,
   cond |-> cond, items |-> items, ident |-> ident]

On(node, ev, target, cond, acts) == D("on", node, ev, target, cond, acts, NonStr)
Entry(node, act) == D("entry", node, "", <<>>, NoCond, <<act>>, NonStr)
Exit(node, act) == D("exit", node, "", <<>>, NoCond, <<act>>, NonStr)
Invoke(node, src) == D("invoke", node, "", <<>>, NoCond, <<>>, src)
Activity(node, type) == D("activity", node, "", <<>>, NoCond, <<Act(type, FALSE)>>, NonStr)
After(node, delay) == D("after", node, "", <<>>, NoCond, <<>>, delay)

DeclMenu == <<
  On("A", "GO", <<"B">>, NoCond, <<>>),
  On("B", "GO", <<"C">>, NoCond, <<>>),
  On("B", "", <<"A">>, NoCond, <<>>),
  On("A", "NEXT", <<"R">>, NoCond, <<>>),
  On("A", "GO", <<DanglingId>>, NoCond, <<>>),
  On("A", "GO", <<>>, Cond("isOk"), <<Act("boot", FALSE)>>),
  On("A", "NEXT", <<"B">>, Cond("cond"), <<Act("inlineFn", TRUE)>>),
  On("A", "GO", <<>>, NoCond,
     <<Choose(<<Branch(Str("isOk"), Str("notify")),
                Branch(NonStr, Arr(<<Str("boot"), NonStr>>))>>)>>),
  On("B", "NEXT", <<>>, NoCond,
     <<Act("xstate.choose", FALSE), Act("xstate.assign", TRUE),
       Choose(<<Branch(Str("ns.ok"), Str("ns.act"))>>)>>),
  Entry("R", Act("boot", FALSE)),
  Entry("B", Act("boot", FALSE)),
  Entry("B", Act("notify", FALSE)),
  Entry("C", Act("notify", FALSE)),
  Entry("A", Act("inlineFn", TRUE)),
  Entry("C", Act("xstate.raise", FALSE)),
  Exit("B", Act("cleanup", FALSE)),
  Invoke("B", Str("fetchData")),
  Invoke("C", Str("fetchData")),
  Invoke("A", NonStr),
  Activity("A", "beep"),
  After("B", Str("TIMEOUT")),
  After("A", NonStr)
>>

\* the implementations tables (machine.options), per category
NoOptions == [guards |-> {}, actions |-> {}, services |-> {}, activities |-> {}, delays |-> {}]
SomeOptions == [guards |-> {"isOk"}, actions |-> {"boot", "inlineFn"},
                services |-> {"fetchData"}, activities |-> {"beep"}, delays |-> {"TIMEOUT"}]
OptionsMenu == {NoOptions, SomeOptions}

\* the sets of at most k declarations (indices into DeclMenu)
RECURSIVE DeclSets(_)
DeclSets(k) ==
  IF k = 0 THEN {{}}
  ELSE LET smaller == DeclSets(k - 1)
       IN smaller \cup {s \cup {i} : s \in smaller, i \in 1..Len(DeclMenu)}

Machines ==
  {[order |-> o, initial |-> ini, decls |-> ds, options |-> opt] :
     o \in StateIdOrders, ini \in InitialConfigs, ds \in DeclSets(MaxDecls),
     opt \in OptionsMenu}

\* the declarations of one kind on one node, in menu order
DeclsOf(m, kind, id) ==
  LET idx == SelectSeq([i \in 1..Len(DeclMenu) |-> i],
                       LAMBDA i : i \in m.decls /\ DeclMenu[i].kind = kind
                                  /\ DeclMenu[i].node = id)
  IN [j \in 1..Len(idx) |-> DeclMenu[idx[j]]]

\* node.onEntry, node.onExit
OnEntry(m, id) == LET ds == DeclsOf(m, "entry", id) IN [j \in 1..Len(ds) |-> ds[j].items[1]]
OnExit(m, id) == LET ds == DeclsOf(m, "exit", id) IN [j \in 1..Len(ds) |-> ds[j].items[1]]

\* node.invoke: the src of each invocation
InvokeOf(m, id) == LET ds == DeclsOf(m, "invoke", id) IN [j \in 1..Len(ds) |-> ds[j].ident]

\* node.after: the delay of each delayed transition
AfterOf(m, id) == LET ds == DeclsOf(m, "after", id) IN [j \in 1..Len(ds) |-> ds[j].ident]

\* node.activities: the declared activities, and xstate's implicit activity of
\* type "xstate.invoke" for each invocation of the node
ActivitiesOf(m, id) ==
  LET ds == DeclsOf(m, "activity", id)
      inv == InvokeOf(m, id)
  IN [j \in 1..Len(ds) |-> ds[j].items[1]]
     \o [j \in 1..Len(inv) |-> Act("xstate.invoke", FALSE)]

\* the event type xstate gives a delayed transition
AfterEvent(id, delay) ==
  "xstate.after(" \o (IF delay.t = "string" THEN delay.s ELSE "1000") \o ")#" \o id

\* node.transitions: the `on` transitions, then the delayed transitions
Transitions(m, id) ==
  LET ds == DeclsOf(m, "on", id)
      af == AfterOf(m, id)
  IN [j \in 1..Len(ds) |->
        [eventType |-> ds[j].eventType, target |-> ds[j].target,
         cond |-> ds[j].cond, actions |-> ds[j].items]]
     \o [j \in 1..Len(af) |->
        [eventType |-> AfterEvent(id, af[j]), target |-> <<>>,
         cond |-> NoCond, actions |-> <<>>]]

(***************************************************************************)
(* ItemMap                                                                 *)
(***************************************************************************)

\* pathToStateValue (xstate/lib/utils): a one-key path is the key itself, any
\* other path a freshly built object
pathToStateValue(nodePath) ==
  [kind |-> IF Len(nodePath) = 1 THEN "string" ELSE "object", path |-> nodePath]

\* Set.prototype.add on the Set<StateValue>: a string is found again by
\* value, an object only by identity, and every call builds a new object
StatesAdd(states, sv) ==
  IF sv.kind = "string" /\ InSeq(states, sv) THEN states ELSE Append(states, sv)

ItemIndex(map, itemName) == CHOOSE i \in 1..Len(map) : map[i].name = itemName
HasItem(map, itemName) == \E i \in 1..Len(map) : map[i].name = itemName

\* ItemMap.addItem
addItem(map, itemName, nodePath) ==
  LET m1 == IF HasItem(map, itemName) THEN map
            ELSE Append(map, [name |-> itemName, events |-> <<>>, states |-> <<>>])
      i == ItemIndex(m1, itemName)
  IN [m1 EXCEPT ![i].states = StatesAdd(@, pathToStateValue(nodePath))]

\* ItemMap.addEventToItem
addEventToItem(map, itemName, eventType, nodePath) ==
  LET m1 == addItem(map, itemName, nodePath)
      i == ItemIndex(m1, itemName)
  IN [m1 EXCEPT ![i].events = SetAdd(@, eventType)]

\* JSON.stringify of a state value
RECURSIVE JsonObject(_)
JsonObject(p) ==
  IF Len(p) = 0 THEN "{}"
  ELSE IF Len(p) = 2 THEN "{\"" \o p[1] \o "\":\"" \o p[2] \o "\"}"
  ELSE "{\"" \o p[1] \o "\":" \o JsonObject(Tail(p)) \o "}"

stringify(sv) == IF sv.kind = "string" THEN "\"" \o sv.path[1] \o "\"" ELSE JsonObject(sv.path)

\* one element of toDataShape's lines
Line(item, implemented) ==
  [name |-> item.name,
   required |-> ~(item.name \in implemented),
   events |-> item.events,
   states |-> SelectSeq([j \in 1..Len(item.states) |-> stringify(item.states[j])], Truthy)]

\* variant of toDataShape that computes the aggregate flag before filtering
toDataShape_RequiredBeforeFilter(map, implemented) ==
  LET kept == SelectSeq(map, LAMBDA item : ~HasDot(item.name))
      lines == [j \in 1..Len(kept) |-> Line(kept[j], implemented)]
  IN [lines |-> lines,
      required |-> \E j \in 1..Len(map) : ~(map[j].name \in implemented)]

\* variant of toDataShape without the filter on "."
toDataShape_NoFilter(map, implemented) ==
  LET lines == [j \in 1..Len(map) |-> Line(map[j], implemented)]
  IN [lines |-> lines,
      required |-> \E j \in 1..Len(lines) : lines[j].required]

\* ItemMap.toDataShape, with checkIfOptional = name is in the implementations table
toDataShape(map, implemented) ==
  LET kept == SelectSeq(map, LAMBDA item : ~HasDot(item.name))
      lines == [j \in 1..Len(kept) |-> Line(kept[j], implemented)]
  IN [lines |-> lines,
      required |-> \E j \in 1..Len(lines) : lines[j].required]

(***************************************************************************)
(* introspectMachine: the walk.  reg is the record of the run's locals:    *)
(* the five ItemMaps, nodeMap, and whether a TypeError has been thrown.    *)
(***************************************************************************)

NoResult == [kind |-> "none"]

EmptyReg(m) ==
  [guards |-> <<>>, actions |-> <<>>, services |-> <<>>, activities |-> <<>>,
   delays |-> <<>>, threw |-> FALSE,
   nodeMap |-> [id \in {m.order[i] : i \in 1..Len(m.order)} |->
                  [sources |-> <<>>, children |-> <<>>]]]

\* variant of IsInitial that forgets the root: only a parent's initial states count
IsInitial_ParentOnly(m, id) ==
  Parent(id) # NoParent /\ id \in initialStateNodes(m, Parent(id))

\* the test that decides whether a node is an initial state
IsInitial(m, id) ==
  \/ (Parent(id) # NoParent /\ id \in initialStateNodes(m, Parent(id)))
  \/ Parent(id) = NoParent

\* "xstate.init" is added to the node's services, entry actions and delays
InitServices(m, reg, id) ==
  FoldLeft(LAMBDA r, service :
             IF service.t = "string"
             THEN [r EXCEPT !.services = addEventToItem(@, service.s, "xstate.init", Path(id))]
             ELSE r,
           reg, InvokeOf(m, id))

InitEntry(m, reg, id) ==
  FoldLeft(LAMBDA r, action :
             IF Truthy(action.type)
             THEN [r EXCEPT !.actions = addEventToItem(@, action.type, "xstate.init", Path(id))]
             ELSE r,
           reg, OnEntry(m, id))

InitDelays(m, reg, id) ==
  FoldLeft(LAMBDA r, delay :
             IF delay.t = "string"
             THEN [r EXCEPT !.delays = addEventToItem(@, delay.s, "xstate.init", Path(id))]
             ELSE r,
           reg, AfterOf(m, id))

RegisterInitial(m, reg, id) ==
  IF IsInitial(m, id)
  THEN InitDelays(m, InitEntry(m, InitServices(m, reg, id), id), id)
  ELSE reg

\* nodeMap[node.id].children.add(childNode.id)
RecordChildren(m, reg, id) ==
  FoldLeft(LAMBDA r, child : [r EXCEPT !.nodeMap[id].children = SetAdd(@, child)],
           reg, States(m, id))

RegisterActivities(m, reg, id) ==
  FoldLeft(LAMBDA r, activity :
             IF Truthy(activity.type) /\ activity.type # "xstate.invoke"
             THEN [r EXCEPT !.activities = addItem(@, activity.type, Path(id))]
             ELSE r,
           reg, ActivitiesOf(m, id))

RegisterDelays(m, reg, id) ==
  FoldLeft(LAMBDA r, delay :
             IF delay.t = "string"
             THEN [r EXCEPT !.delays = addItem(@, delay.s, Path(id))]
             ELSE r,
           reg, AfterOf(m, id))

RegisterServices(m, reg, id) ==
  FoldLeft(LAMBDA r, service :
             IF service.t # "string" THEN r
             ELSE [r EXCEPT !.services = addItem(@, service.s, Path(id))],
           reg, InvokeOf(m, id))

\* variant of RecordSource that still throws on a missing entry but adds nothing
RecordSource_NoAdd(reg, targetId, eventType) ==
  IF targetId \notin DOMAIN reg.nodeMap THEN [reg EXCEPT !.threw = TRUE] ELSE reg

\* variant of RecordSource with optional chaining: a missing entry is passed over
RecordSource_Silent(reg, targetId, eventType) ==
  IF targetId \notin DOMAIN reg.nodeMap THEN reg
  ELSE [reg EXCEPT !.nodeMap[targetId].sources = SetAdd(@, eventType)]

\* nodeMap[targetNode.id].sources.add(transition.eventType); reading .sources
\* of a missing nodeMap entry throws a TypeError
RecordSource(reg, targetId, eventType) ==
  IF targetId \notin DOMAIN reg.nodeMap
  THEN [reg EXCEPT !.threw = TRUE]
  ELSE [reg EXCEPT !.nodeMap[targetId].sources = SetAdd(@, eventType)]

RecordSources(reg, transition) ==
  FoldLeft(LAMBDA r, targetId : RecordSource(r, targetId, transition.eventType),
           reg, transition.target)

RegisterCond(reg, id, transition) ==
  IF transition.cond.present /\ Truthy(transition.cond.name)
     /\ transition.cond.name # "cond"
  THEN [reg EXCEPT !.guards =
          addEventToItem(@, transition.cond.name, transition.eventType, Path(id))]
  ELSE reg

\* "Pick up invokes": the services of each target, under the transition's event
\* and the path of the node that declares the transition
PickUpInvokes(m, reg, id, transition) ==
  FoldLeft(LAMBDA r, targetId :
             FoldLeft(LAMBDA r2, service :
                        IF service.t # "string" THEN r2
                        ELSE [r2 EXCEPT !.services =
                                addEventToItem(@, service.s, transition.eventType, Path(id))],
                      r, InvokeOf(m, targetId)),
           reg, transition.target)

\* variant of BranchEvent that attributes a branch to the choose action itself
BranchEvent_Synthetic(transition) == "xstate.choose"

\* the event under which a branch of a choose action is registered
BranchEvent(transition) == transition.eventType

\* one element of action.conds
RegisterBranch(reg, id, transition, branch) ==
  LET ev == BranchEvent(transition)
      r1 == IF branch.cond.t = "string"
            THEN [reg EXCEPT !.guards = addEventToItem(@, branch.cond.s, ev, Path(id))]
            ELSE reg
  IN IF branch.actions.t = "array"
     THEN FoldLeft(LAMBDA r, condAction :
                     IF condAction.t = "string"
                     THEN [r EXCEPT !.actions = addEventToItem(@, condAction.s, ev, Path(id))]
                     ELSE r,
                   r1, branch.actions.items)
     ELSE IF branch.actions.t = "string"
     THEN [r1 EXCEPT !.actions = addEventToItem(@, branch.actions.s, ev, Path(id))]
     ELSE r1

\* one element of transition.actions
RegisterTransitionAction(reg, id, transition, action) ==
  LET r1 == IF ~xstateRegex(action.type)
            THEN [reg EXCEPT !.actions =
                    addEventToItem(@, action.type, transition.eventType, Path(id))]
            ELSE reg
  IN IF action.type = "xstate.choose" /\ action.conds.isArray
     THEN FoldLeft(LAMBDA r, branch : RegisterBranch(r, id, transition, branch),
                   r1, action.conds.items)
     ELSE r1

\* one element of node.transitions
VisitTransition(m, reg, id, transition) ==
  LET r1 == RecordSources(reg, transition)
      r2 == RegisterCond(r1, id, transition)
      r3 == PickUpInvokes(m, r2, id, transition)
  IN FoldLeft(LAMBDA r, action : RegisterTransitionAction(r, id, transition, action),
              r3, transition.actions)

\* the body of the first walk over allStateNodes
VisitNode(m, reg, id) ==
  LET r1 == RegisterInitial(m, reg, id)
      r2 == RecordChildren(m, r1, id)
      r3 == RegisterActivities(m, r2, id)
      r4 == RegisterDelays(m, r3, id)
      r5 == RegisterServices(m, r4, id)
  IN FoldLeft(LAMBDA r, transition : VisitTransition(m, r, id, transition),
              r5, Transitions(m, id))

\* the first walk, over machine.stateIds
FirstWalk(m) == FoldLeft(LAMBDA r, id : VisitNode(m, r, id), EmptyReg(m), m.order)

\* exit and entry actions of a node, registered without an event
RegisterEntryExit(m, reg, id) ==
  FoldLeft(LAMBDA r, action :
             IF xstateRegex(action.type) \/ action.exec THEN r
             ELSE [r EXCEPT !.actions = addItem(@, action.type, Path(id))],
           reg, OnExit(m, id) \o OnEntry(m, id))

\* the node's recorded sources become events of each of its entry actions
PropagateSources(m, reg, id) ==
  FoldLeft(LAMBDA r, action :
             FoldLeft(LAMBDA r2, source :
                        [r2 EXCEPT !.actions = addEventToItem(@, action.type, source, Path(id))],
                      r, reg.nodeMap[id].sources),
           reg, OnEntry(m, id))

\* the body of the second walk over allStateNodes
VisitEntryExit(m, reg, id) == PropagateSources(m, RegisterEntryExit(m, reg, id), id)

SecondWalk(m, reg) == FoldLeft(LAMBDA r, id : VisitEntryExit(m, r, id), reg, m.order)

\* makeSubStateFromNode (targets come from getTransitionsFromNode, which is not
\* part of this module)
RECURSIVE makeSubStateFromNode(_, _)
makeSubStateFromNode(id, nm) ==
  [sources |-> SelectSeq(nm[id].sources, Truthy),
   states |-> [k \in {Key(nm[id].children[i]) : i \in 1..Len(nm[id].children)} |->
                 makeSubStateFromNode(CHOOSE c \in DOMAIN nm : Key(c) = k /\ InSeq(nm[id].children, c),
                                      nm)]]

\* the object introspectMachine returns
Assemble(m, reg) ==
  [kind |-> "result",
   states |-> [i \in 1..Len(m.order) |->
                 [id |-> m.order[i], sources |-> reg.nodeMap[m.order[i]].sources]],
   subState |-> makeSubStateFromNode("R", reg.nodeMap),
   guards |-> toDataShape(reg.guards, m.options.guards),
   actions |-> toDataShape(reg.actions, m.options.actions),
   services |-> toDataShape(reg.services, m.options.services),
   activities |-> toDataShape(reg.activities, m.options.activities),
   delays |-> toDataShape(reg.delays, m.options.delays)]

(***************************************************************************)
(* introspectMachine as a state machine                                    *)
(***************************************************************************)

WriterIdle ==
  /\ wOpts = [filePath |-> "", machines |-> <<>>]
  /\ wpc = "idle"
  /\ wConfig = "none"
  /\ files = {}
  /\ logged = 0

Init ==
  /\ machine \in Machines
  /\ pc = "start"
  /\ nodeMap = EmptyReg(machine).nodeMap
  /\ guards = <<>>
  /\ actions = <<>>
  /\ services = <<>>
  /\ activities = <<>>
  /\ delays = <<>>
  /\ result = NoResult
  /\ WriterIdle

Reg == [guards |-> guards, actions |-> actions, services |-> services,
        activities |-> activities, delays |-> delays, threw |-> FALSE, nodeMap |-> nodeMap]

SetReg(reg) ==
  /\ guards' = reg.guards
  /\ actions' = reg.actions
  /\ services' = reg.services
  /\ activities' = reg.activities
  /\ delays' = reg.delays
  /\ nodeMap' = reg.nodeMap

\* lines 143-276: nodeMap is built and every node and transition is visited
IndexNodes ==
  /\ pc = "start"
  /\ LET reg == FirstWalk(machine)
     IN IF reg.threw
        THEN /\ pc' = "threw"
             /\ UNCHANGED <<nodeMap, guards, actions, services, activities, delays>>
        ELSE /\ pc' = "indexed"
             /\ SetReg(reg)
  /\ UNCHANGED <<machine, result>>
  /\ UNCHANGED wvars

\* lines 278-294: entry and exit actions
EntryExitWalk ==
  /\ pc = "indexed"
  /\ SetReg(SecondWalk(machine, Reg))
  /\ pc' = "walked"
  /\ UNCHANGED <<machine, result>>
  /\ UNCHANGED wvars

\* lines 296-312: the result
Return ==
  /\ pc = "walked"
  /\ result' = Assemble(machine, Reg)
  /\ pc' = "done"
  /\ UNCHANGED <<machine, nodeMap, guards, actions, services, activities, delays>>
  /\ UNCHANGED wvars

Next == IndexNodes \/ EntryExitWalk \/ Return

Spec == Init /\ [][Next]_vars

(***************************************************************************)
(* writeToTypegenFile                                                      *)
(***************************************************************************)

MaxMachines == 2

EndsWith(str, suffix) ==
  Len(str) >= Len(suffix) /\ SubSeq(str, Len(str) - Len(suffix) + 1, Len(str)) = suffix

SourceExtensions == {".cjs", ".mjs", ".js", ".tsx", ".ts", ".jsx"}

\* opts.filePath.replace(/\.(cjs|mjs|js|tsx|ts|jsx)$/, ".typegen.ts")
pathToSave(filePath) ==
  IF \E e \in SourceExtensions : EndsWith(filePath, e)
  THEN LET e == CHOOSE x \in SourceExtensions : EndsWith(filePath, x)
       IN SubSeq(filePath, 1, Len(filePath) - Len(e)) \o ".typegen.ts"
  ELSE filePath

FilePaths == {"m.ts", "m.tsx", "m.mjs", "m.json", "mts", "a.ts.bak"}

RECURSIVE SeqsUpTo(_, _)
SeqsUpTo(S, n) ==
  IF n = 0 THEN {<<>>}
  ELSE LET shorter == SeqsUpTo(S, n - 1)
       IN shorter \cup {Append(q, x) : q \in shorter, x \in S}

\* opts.event.machines.some((machine) => machine.hasTypesNode)
SomeHasTypesNode(opts) == \E i \in 1..Len(opts.machines) : opts.machines[i]

IntrospectIdle ==
  /\ machine = [order |-> <<"R", "A", "C", "B">>,
                initial |-> [R |-> "A", A |-> "", B |-> "", C |-> ""],
                decls |-> {}, options |-> NoOptions]
  /\ pc = "idle"
  /\ nodeMap = EmptyReg(machine).nodeMap
  /\ guards = <<>>
  /\ actions = <<>>
  /\ services = <<>>
  /\ activities = <<>>
  /\ delays = <<>>
  /\ result = NoResult

InitWriter ==
  /\ IntrospectIdle
  /\ wOpts \in {[filePath |-> fp, machines |-> ms] :
                  fp \in FilePaths, ms \in SeqsUpTo(BOOLEAN, MaxMachines)}
  /\ wpc = "start"
  /\ wConfig = "none"
  /\ files \in SUBSET {wOpts.filePath, pathToSave(wOpts.filePath)}
  /\ logged = 0

\* line 9: await prettier.resolveConfig(opts.filePath), before the try block
ResolveConfig ==
  /\ wpc = "start"
  /\ \/ /\ wConfig' \in {"null", "config"}
        /\ wpc' = "try"
     \/ /\ wpc' = "rejected"
        /\ UNCHANGED wConfig
  /\ UNCHANGED <<wOpts, files, logged>>
  /\ UNCHANGED ivars

\* lines 16-24 and the catch of lines 32-34: getTypegenOutput, prettier.format and
\* fs.writeFile may each fail
WriteTypegen ==
  /\ wpc = "try"
  /\ SomeHasTypesNode(wOpts)
  /\ \E failure \in {"none", "getTypegenOutput", "format", "writeFile"} :
       IF failure = "none"
       THEN /\ files' = files \cup {pathToSave(wOpts.filePath)}
            /\ UNCHANGED logged
       ELSE /\ logged' = logged + 1
            /\ UNCHANGED files
  /\ wpc' = "resolved"
  /\ UNCHANGED <<wOpts, wConfig>>
  /\ UNCHANGED ivars

\* lines 26-30: fs.unlink, whose failure the inner catch drops
RemoveTypegen ==
  /\ wpc = "try"
  /\ ~SomeHasTypesNode(wOpts)
  /\ \/ /\ pathToSave(wOpts.filePath) \in files
        /\ files' = files \ {pathToSave(wOpts.filePath)}
     \/ UNCHANGED files
  /\ wpc' = "resolved"
  /\ UNCHANGED <<wOpts, wConfig, logged>>
  /\ UNCHANGED ivars

NextWriter == ResolveConfig \/ WriteTypegen \/ RemoveTypegen

SpecWriter == InitWriter /\ [][NextWriter]_vars

(***************************************************************************)
(* Properties                                                              *)
(***************************************************************************)

Categories == {"guards", "actions", "services", "activities", "delays"}

Returned == pc = "done"

\* the lines of one category's report in the returned result
LinesOf(cat) == {result[cat].lines[i] : i \in 1..Len(result[cat].lines)}

ToSet(s) == {s[i] : i \in 1..Len(s)}

NodeIds == ToSet(machine.order)

\* every (node, transition) pair of the machine
AllTransitions ==
  UNION {{[node |-> id, t |-> Transitions(machine, id)[i]] :
            i \in 1..Len(Transitions(machine, id))} : id \in NodeIds}

TransitionEventTypes == {nt.t.eventType : nt \in AllTransitions}

\* the ids some transition targets
Targeted == UNION {ToSet(nt.t.target) : nt \in AllTransitions}

\* the event types of the transitions that target a node
IncomingEvents(id) == {nt.t.eventType : nt \in {x \in AllTransitions : InSeq(x.t.target, id)}}

\* the string-valued actions of one branch of a choose action
BranchActionNames(branch) ==
  IF branch.actions.t = "string" THEN {branch.actions.s}
  ELSE IF branch.actions.t = "array"
  THEN {v.s : v \in {x \in ToSet(branch.actions.items) : x.t = "string"}}
  ELSE {}

\* the branches of the choose actions (with an array of branches) of a transition
ChooseBranches(t) ==
  UNION {ToSet(a.conds.items) :
           a \in {x \in ToSet(t.actions) : x.type = "xstate.choose" /\ x.conds.isArray}}

\* every action name used by a transition, in its list or in a branch of a choose
TransitionActionNames ==
  UNION {{a.type : a \in ToSet(nt.t.actions)}
           \cup UNION {BranchActionNames(b) : b \in ChooseBranches(nt.t)} :
         nt \in AllTransitions}

EntryNames(id) == {a.type : a \in ToSet(OnEntry(machine, id))}
ExitNames(id) == {a.type : a \in ToSet(OnExit(machine, id))}

StateValueOf(id) == stringify(pathToStateValue(Path(id)))

\* a line of the category for the name, with the event, recorded at the node
HasLineWith(cat, name, ev, id) ==
  \E l \in LinesOf(cat) :
    l.name = name /\ InSeq(l.events, ev) /\ InSeq(l.states, StateValueOf(id))

(*-------------------------------- C1 ------------------------------------*)

C1_Scenario ==
  /\ machine.initial["R"] = "A"
  /\ Len(Transitions(machine, "A")) = 1
  /\ Transitions(machine, "A")[1].eventType = "GO"
  /\ Transitions(machine, "A")[1].target = <<"B">>
  /\ InSeq(InvokeOf(machine, "B"), Str("fetchData"))
  /\ \A id \in NodeIds \ {"B"} : ~InSeq(InvokeOf(machine, id), Str("fetchData"))

\* C1: with A initial, A's only transition GO -> B, and fetchData invoked on B
\* only, the services report has a line fetchData with events exactly [GO] and
\* states exactly ["B"], the state that declares the invocation.
C1_ServiceLineOfTarget ==
  (Returned /\ C1_Scenario) =>
    \E l \in LinesOf("services") :
      l.name = "fetchData" /\ l.events = <<"GO">> /\ l.states = <<StateValueOf("B")>>

(*-------------------------------- C2 ------------------------------------*)

C2_Pre ==
  /\ "boot" \in EntryNames("R")
  /\ "R" \notin Targeted
  /\ "boot" \notin TransitionActionNames

C2_BootOnlyInit ==
  \E l \in LinesOf("actions") : l.name = "boot" /\ l.events = <<"xstate.init">>

\* C2 as stated: root entry action boot, root never targeted, boot in no
\* transition's actions: the actions line of boot has events exactly [xstate.init].
C2_RootEntryOnlyInit == (Returned /\ C2_Pre) => C2_BootOnlyInit

\* boot is an entry action of no targeted state
C2_NoTargetedEntry == \A id \in NodeIds : "boot" \in EntryNames(id) => id \notin Targeted

\* C2 amended: the same, provided boot is not an entry action of any state that
\* a transition targets.
C2_RootEntryOnlyInit_Amended ==
  (Returned /\ C2_Pre /\ C2_NoTargetedEntry) => C2_BootOnlyInit

C2_Witness ==
  /\ Returned /\ C2_Pre /\ C2_NoTargetedEntry
  /\ \E id \in NodeIds \ {"R"} : "boot" \in EntryNames(id)
  /\ Targeted # {}

(*-------------------------------- C3 ------------------------------------*)

RECURSIVE SubStateAt(_, _)
SubStateAt(sub, path) ==
  IF path = <<>> THEN sub ELSE SubStateAt(sub.states[Head(path)], Tail(path))

\* the sources of the entry of result.states (the edges) for an id
EdgeSources(id) ==
  UNION {ToSet(result.states[i].sources) :
           i \in {j \in 1..Len(result.states) : result.states[j].id = id}}

\* C3 as stated: for every transition with event E and every target T, E is in
\* the sources of T's edges entry and in the sources of T's subState node.
C3_SourcesRecorded ==
  Returned =>
    \A nt \in AllTransitions : \A T \in ToSet(nt.t.target) :
      /\ nt.t.eventType \in EdgeSources(T)
      /\ InSeq(SubStateAt(result.subState, Path(T)).sources, nt.t.eventType)

\* C3 amended: E is always in the sources of T's edges entry, and it is in the
\* sources of T's subState node when E is not the empty event type.
C3_SourcesRecorded_Amended ==
  Returned =>
    \A nt \in AllTransitions : \A T \in ToSet(nt.t.target) :
      /\ nt.t.eventType \in EdgeSources(T)
      /\ nt.t.eventType # "" =>
           InSeq(SubStateAt(result.subState, Path(T)).sources, nt.t.eventType)

C3_Witness ==
  /\ Returned
  /\ \E nt \in AllTransitions : nt.t.eventType = "GO" /\ nt.t.target = <<"C">>
  /\ \E nt \in AllTransitions : nt.t.eventType = "" /\ nt.t.target # <<>>

(*-------------------------------- C4 ------------------------------------*)

\* C4: in each report a line is required exactly when the implementations table
\* has no entry for its name, and the report is required exactly when one of
\* its emitted lines is; a name left out of the lines does not count.
C4_RequiredIffUnimplemented ==
  Returned =>
    \A cat \in Categories :
      /\ \A l \in LinesOf(cat) : l.required <=> (l.name \notin machine.options[cat])
      /\ result[cat].required <=> (\E l \in LinesOf(cat) : l.required)

\* a report with lines, none required, whose registry also holds an excluded,
\* unimplemented name
C4_Witness ==
  /\ Returned
  /\ LinesOf("actions") # {}
  /\ ~result.actions.required
  /\ \E i \in 1..Len(actions) :
       HasDot(actions[i].name) /\ actions[i].name \notin machine.options.actions

(*-------------------------------- C5 ------------------------------------*)

C5_AllEventsReal ==
  \A cat \in Categories : \A l \in LinesOf(cat) :
    ToSet(l.events) \subseteq TransitionEventTypes \cup {"xstate.init"}

C5_BranchAttribution(names) ==
  \A nt \in AllTransitions : \A b \in ChooseBranches(nt.t) :
    /\ (b.cond.t = "string" /\ b.cond.s \in names) =>
         HasLineWith("guards", b.cond.s, nt.t.eventType, nt.node)
    /\ \A a \in BranchActionNames(b) \cap names :
         HasLineWith("actions", a, nt.t.eventType, nt.node)

AllBranchNames ==
  UNION {BranchActionNames(b) \cup (IF b.cond.t = "string" THEN {b.cond.s} ELSE {}) :
           b \in UNION {ChooseBranches(nt.t) : nt \in AllTransitions}}

\* C5 as stated: every string guard and every string action of a choose branch
\* gets a line with the enclosing transition's event, recorded at the
\* transition's node, and no events list holds anything but transition event
\* types and xstate.init.
C5_ChooseAttribution ==
  Returned => (C5_BranchAttribution(AllBranchNames) /\ C5_AllEventsReal)

\* C5 amended: the same for the branch guards and actions whose name has no ".".
C5_ChooseAttribution_Amended ==
  Returned =>
    (C5_BranchAttribution({n \in AllBranchNames : ~HasDot(n)}) /\ C5_AllEventsReal)

C5_Witness ==
  /\ Returned
  /\ \E nt \in AllTransitions : \E b \in ChooseBranches(nt.t) :
       /\ b.actions.t = "array"
       /\ HasLineWith("actions", "boot", nt.t.eventType, nt.node)
       /\ HasLineWith("guards", "isOk", nt.t.eventType, nt.node)

(*-------------------------------- C6 ------------------------------------*)

HasDanglingTarget == \E nt \in AllTransitions : \E T \in ToSet(nt.t.target) : T \notin NodeIds

\* C6: with a transition target missing from the lookup, introspectMachine
\* throws and returns nothing: it never goes on to build a result.
C6_DanglingTargetAborts ==
  HasDanglingTarget => (pc \in {"start", "threw"} /\ result = NoResult)

C6_Witness == HasDanglingTarget /\ pc = "threw" /\ Cardinality(machine.decls) > 1

(*-------------------------------- C7 ------------------------------------*)

AllActionObjects ==
  UNION {ToSet(OnEntry(machine, id)) \cup ToSet(OnExit(machine, id)) : id \in NodeIds}
    \cup UNION {ToSet(nt.t.actions) : nt \in AllTransitions}

\* the names carried only by actions with an inline executable body
InlineActionNames ==
  {a.type : a \in {x \in AllActionObjects : x.exec}}
    \ ({a.type : a \in {x \in AllActionObjects : ~x.exec}}
         \cup UNION {BranchActionNames(b) :
                       b \in UNION {ChooseBranches(nt.t) : nt \in AllTransitions}})

StringSrcs == {v.s : v \in {x \in UNION {ToSet(InvokeOf(machine, id)) : id \in NodeIds} : x.t = "string"}}
StringDelays == {v.s : v \in {x \in UNION {ToSet(AfterOf(machine, id)) : id \in NodeIds} : x.t = "string"}}

\* C7: an inline guard, action, service, activity or delay produces no line in
\* any report, wherever it is declared, and no error.
C7_InlineSkipped ==
  /\ ~HasDanglingTarget => pc # "threw"
  /\ Returned =>
       /\ \A l \in LinesOf("actions") : l.name \notin InlineActionNames
       /\ \A l \in LinesOf("services") : l.name \in StringSrcs
       /\ \A l \in LinesOf("delays") : l.name \in StringDelays
       /\ \A l \in LinesOf("guards") : l.name # "cond"

(*-------------------------------- C8 ------------------------------------*)

\* C8: no line of any report has a name containing ".".
C8_NoSeparatorInLines ==
  Returned => \A cat \in Categories : \A l \in LinesOf(cat) : ~HasDot(l.name)

\* a run whose registries hold dotted names from a transition and from an entry action
C8_Witness ==
  /\ Returned
  /\ \E i \in 1..Len(guards) : HasDot(guards[i].name)
  /\ \E i \in 1..Len(actions) : actions[i].name = "xstate.raise"

(*-------------------------------- C9 ------------------------------------*)

\* C9: no failure of a step of writeToTypegenFile reaches the caller: the
\* returned promise is never rejected.
C9_NeverRejects == wpc # "rejected"

(*-------------------------------- C10 -----------------------------------*)

\* events of an entry action's line cover the sources recorded for its node
C10_EntryCoversSources ==
  \A id \in NodeIds : \A a \in ToSet(OnEntry(machine, id)) :
    (Truthy(a.type) /\ ~xstateRegex(a.type)) =>
      /\ (~HasDot(a.type) /\ IncomingEvents(id) # {}) =>
           \E l \in LinesOf("actions") : l.name = a.type
      /\ \A l \in LinesOf("actions") :
           l.name = a.type => IncomingEvents(id) \subseteq ToSet(l.events)

\* notify is an entry action of the node and is used nowhere else
C10_NotifyOnlyOn(id) ==
  /\ "notify" \in EntryNames(id)
  /\ "notify" \notin ExitNames(id)
  /\ \A other \in NodeIds \ {id} : "notify" \notin EntryNames(other) \cup ExitNames(other)
  /\ "notify" \notin TransitionActionNames

C10_Scenario(id) ==
  /\ ~IsInitial(machine, id)
  /\ IncomingEvents(id) = {"GO"}
  /\ C10_NotifyOnlyOn(id)

\* C10: every entry action's events cover all incoming events of its node,
\* whatever the visiting order; and for a non-initial state whose only incoming
\* transition is GO and whose entry action notify is used nowhere else, the
\* line of notify has events exactly [GO] and states exactly that one state.
C10_EntryPropagation ==
  Returned =>
    /\ C10_EntryCoversSources
    /\ \A id \in NodeIds :
         C10_Scenario(id) =>
           \E l \in LinesOf("actions") :
             l.name = "notify" /\ l.events = <<"GO">> /\ l.states = <<StateValueOf(id)>>
====
